---- MODULE Spec2Model ----
(***************************************************************************)
(* Model of DockingAnalyzer (src/dockingAnalysis.py): the two results      *)
(* checkers, the sharded-file scanner of rDock, the tabular retriever of   *)
(* Glide, the best-pose reduction, the molecular-weight stage and the      *)
(* correlation stage, and a second analysis call in the same working       *)
(* directory.                                                              *)
(*                                                                         *)
(* Specifications:                                                         *)
(*  - Spec: one call, from the entry point to the end of the reduction;    *)
(*  - SpecRuns: whole calls, up to MaxCalls of them, over docking results  *)
(*    drawn from a smaller set (SmallResults);                             *)
(*  - SpecTrim: the rDock trimmer on the csv of a file of many records.    *)
(*  - SpecShards: one rDock dock call on a results directory that may     *)
(*    hold an '.sd' file that is not a shard;                              *)
(*  - SpecJob: the constructor of DockingJob (src/dockingJob.py).          *)
(*                                                                         *)
(* Input conventions of the model:                                         *)
(*  - the directories the code lists exist (a missing directory is not     *)
(*    modelled);                                                           *)
(*  - in a shard file the line that follows a marker line is the data line *)
(*    of that annotation (a number after '>  <SCORE>', '<ligand>-<conf>'   *)
(*    after '>  <s_lp_Variant>'), as rbdock writes it; everything else     *)
(*    about a file is free: which annotations a record holds, how many, in *)
(*    which order, and where the '$$$$' lines are;                         *)
(*  - scores are integers; the columns SMILES and r_glide_cpu_time of the  *)
(*    Glide table are carried along by the code without being read by any  *)
(*    step modelled here and are left out;                                 *)
(*  - a line of the SMILES file stands for the ligand it describes and     *)
(*    parses or does not; the experimental-data csv holds the column asked *)
(*    for; both experimental-data files lie in the working directory when  *)
(*    the first call is made, and the files keep their contents from one   *)
(*    call to the next.                                                    *)
(***************************************************************************)
EXTENDS Integers, Sequences, FiniteSets, TLC

\* ----------------------------------------------------------------- bounds
\* most rows the ingested (whole-dataset) table may hold
MaxRows == 2
\* largest value of the per-file record counter
MaxEntry == 2
\* most rows of the Glide result table
MaxTable == 3
\* most records of one ligand's result table in the score protocol of Glide
MaxRecords == 2

\* --------------------------------------------------------------- domains
Ligands == {"L1", "L2"}
\* pandas sorts the ligand column lexicographically
LigandOrder == <<"L1", "L2">>
Conformers == {1, 2}
Scores == {-9, -8}
LigNums == {1, 2}
Protocols == {"dock", "score", "redock"}
\* experimental-data files the caller may name
ExpFiles == {"expA.csv", "expB.csv"}
\* entries that may be found in 3_docking_job/job/results
RdockDirNames == {"split1_out.sd", "split2_out.sd"}
\* entries that may be found in 3_docking_job/job
GlideDirNames == {"glide_job.csv", "glide_job.in"}

\* x.endswith('.sd')
EndsWithSd(x) == x \in {"split1_out.sd", "split2_out.sd", "docked_out.sd"}
\* x.startswith('split')
StartsWithSplit(x) == x \in {"split1_out.sd", "split2_out.sd"}
\* x.endswith('.csv')
EndsWithCsv(x) == x \in {"glide_job.csv"}

\* rbdock -n 50 (dockingJob.py) and the 50 of the trimmer
PosesPerLigand == 50

VARIABLES
  tool,            \* entry point called: "rdock" (rdockAnalysis), "glide" (glideAnalysis)
  protocol,        \* the protocol argument of the call
  pc,              \* stage the call has reached
  err,             \* exception that ended the call, "none" while it runs
  self_protocol,   \* self.protocol
  docking_tool,    \* self.docking_tool
  dock_dir,        \* os.listdir of the directory the dock protocol reads
  score_dir,       \* score protocol: ligand subfolder -> its result file is there
  todo,            \* files the generator has still to open, in os.listdir order
  filename,        \* file being scanned ("" when none)
  counter,         \* counter of the scanner
  score_bool,      \* score_bool of the scanner
  conformer_bool,  \* conformer_bool of the scanner
  score,           \* local variable score: <<>> while unbound, <<v>> once assigned
  score_fresh,     \* history: score was read in the record being scanned
  data,            \* rows ingested so far (the whole-dataset table once written)
  csv_whole,       \* contents of the whole-dataset csv, <<>> before it is written
  calculated_data, \* self.calculated_data
  csv_best,        \* contents of the best-pose csv
  written,         \* paths of the files this call has written, in the order written
  prior,           \* <<path, protocol>> of the files earlier calls have written
  calls,           \* number of analysis calls made in this working directory
  ligands_file,    \* 1_input_files/ligands/<file>: <<>> until read, then <<its lines>>
  molecular_weight,\* self.molecular_weight
  experimental_data, \* the experimental_data argument ("" until _correlation uses it)
  cwd_files,       \* experimental-data files lying in the working directory
  exp_dir,         \* 1_input_files/experimental_energies: <<>> if absent, else <<its files>>
  exp_tables,      \* contents of the experimental-data files read so far
  ligands,         \* DockingJob: the ligands argument, as ligands.split('.')
  job_pc,          \* DockingJob: step its constructor has reached ("idle": none is running)
  job_err,         \* DockingJob: exception that ended the constructor, "none" otherwise
  job_dirs         \* DockingJob: which of 3_docking_job and 3_docking_job/job exist

vars == <<tool, protocol, pc, err, self_protocol, docking_tool, dock_dir, score_dir,
          todo, filename, counter, score_bool, conformer_bool, score, score_fresh,
          data, csv_whole, calculated_data, csv_best, written, prior, calls,
          ligands_file, molecular_weight, experimental_data, cwd_files, exp_dir,
          exp_tables, ligands, job_pc, job_err,
          job_dirs>>

scanner == <<todo, filename, counter, score_bool, conformer_bool, score, score_fresh>>
tables == <<data, csv_whole, calculated_data, csv_best>>
filesystem == <<dock_dir, score_dir>>
call == <<tool, protocol>>
job == <<ligands, job_pc, job_err, job_dirs>>
\* what only the stages after the reduction, a later call and DockingJob touch
late == <<prior, calls, ligands_file, molecular_weight, experimental_data, cwd_files,
          exp_dir, exp_tables, job>>

\* ------------------------------------------------------------- sequences
Range(s) == {s[i] : i \in 1..Len(s)}

\* all orders in which os.listdir may return the set S
Orders(S) == {s \in [1..Cardinality(S) -> S] : Range(s) = S}

Min(S) == CHOOSE x \in S : \A y \in S : x <= y

LigandRank(l) == CHOOSE i \in 1..Len(LigandOrder) : LigandOrder[i] = l

\* no DockingJob is being constructed; the folders it makes are there
JobIdle == /\ ligands = <<>> /\ job_pc = "idle" /\ job_err = "none"
           /\ job_dirs = {"3_docking_job", "3_docking_job/job"}

\* ------------------------------------------------------------------ Init
\* State after DockingAnalyzer() is constructed (lines 75-86), with the call
\* about to be made and the result directories as the docking job left them.
Init ==
  /\ tool \in {"rdock", "glide"}
  /\ protocol \in Protocols
  /\ pc = "call"
  /\ err = "none"
  /\ self_protocol = "None"
  /\ docking_tool = "None"
  /\ dock_dir \in IF protocol = "dock"
                  THEN SUBSET (IF tool = "rdock" THEN RdockDirNames ELSE GlideDirNames)
                  ELSE {{}}
  /\ score_dir \in IF protocol = "score"
                   THEN UNION {[F -> BOOLEAN] : F \in SUBSET Ligands}
                   ELSE {<<>>}
  /\ todo = <<>>
  /\ filename = ""
  /\ counter = 1
  /\ score_bool = FALSE
  /\ conformer_bool = FALSE
  /\ score = <<>>
  /\ score_fresh = FALSE
  /\ data = <<>>
  /\ csv_whole = <<>>
  /\ calculated_data = <<>>
  /\ csv_best = <<>>
  /\ written = <<>>
  /\ prior = {}
  /\ calls = 1
  /\ ligands_file = <<>>
  /\ molecular_weight = <<>>
  /\ experimental_data = ""
  /\ cwd_files = ExpFiles
  /\ exp_dir = <<>>
  /\ exp_tables = [f \in ExpFiles |-> <<>>]
  /\ JobIdle

\* open(path, 'w'), to_csv(path), savefig(path): the files are written in this order
Write(paths) == written' = written \o paths

\* raise Exception(...) or an exception of the interpreter: the call ends
Raise(e) == pc' = "failed" /\ err' = e

\* ---------------------------------------------------------- entry points
\* rdockAnalysis, line 670: the call goes straight to the results checker
rdockAnalysis ==
  /\ pc = "call" /\ tool = "rdock"
  /\ pc' = "check"
  /\ UNCHANGED <<late, written, call, err, self_protocol, docking_tool, filesystem, scanner, tables>>

\* glideAnalysis, lines 646-648: self.protocol is set before the checker runs
glideAnalysis ==
  /\ pc = "call" /\ tool = "glide"
  /\ self_protocol' = protocol
  /\ pc' = "check"
  /\ UNCHANGED <<late, written, call, err, docking_tool, filesystem, scanner, tables>>

\* ------------------------------------------------------ results checkers
\* path_results[0].endswith('sd'): a one-character string never ends with 'sd'
FirstCharEndsWithSd(x) == FALSE

\* the folders of the score directory and those holding their result file
InputFolders == DOMAIN score_dir
OutputFolders == {f \in DOMAIN score_dir : score_dir[f]}

\* _rdockDockingResultsChecker, lines 416-453
rdockDockingResultsChecker ==
  /\ pc = "check" /\ tool = "rdock"
  /\ \/ /\ protocol = "dock"
        /\ self_protocol' = "dock" /\ docking_tool' = "rdock"
        /\ LET sd == {x \in dock_dir : EndsWithSd(x)} IN
           IF sd = {}
           THEN Raise("IndexError")                      \* [...][0] of an empty list
           ELSE \E path_results \in sd :                 \* first in os.listdir order
                  IF Len(path_results) = 0 /\ FirstCharEndsWithSd(path_results)
                  THEN Raise("ResultsMissingError")
                  ELSE pc' = "generate" /\ err' = err
     \/ /\ protocol = "score"
        /\ self_protocol' = "score" /\ docking_tool' = "rdock"
        /\ LET input_folders == Cardinality(InputFolders)
               output_files == Cardinality(OutputFolders) IN
           IF input_folders = 0
           THEN Raise("ZeroDivisionError")               \* output_files/input_folders
           ELSE IF output_files # input_folders          \* outputs_per_inputs != 1
           THEN Raise("OutputError")
           ELSE pc' = "generate" /\ err' = err
     \/ /\ protocol \notin {"dock", "score"}
        /\ Raise("ProtocolError")
        /\ UNCHANGED <<self_protocol, docking_tool>>
  /\ UNCHANGED <<late, written, call, filesystem, scanner, tables>>

\* _glideDockingResultsChecker, lines 275-300
glideDockingResultsChecker ==
  /\ pc = "check" /\ tool = "glide"
  /\ \/ /\ protocol = "dock"
        /\ LET csv == {x \in dock_dir : EndsWithCsv(x)} IN
           IF csv = {}
           THEN Raise("IndexError") /\ docking_tool' = docking_tool
           ELSE \E path_results \in csv :
                  IF path_results \notin dock_dir       \* not os.path.isfile(...)
                  THEN Raise("ResultsMissingError") /\ docking_tool' = docking_tool
                  ELSE pc' = "retrieve" /\ err' = err /\ docking_tool' = "glide"
     \/ /\ protocol = "score"
        /\ IF InputFolders # OutputFolders               \* [...][0] in a folder without csv
           THEN Raise("IndexError") /\ docking_tool' = docking_tool
           ELSE IF Cardinality(OutputFolders) = 0        \* len(paths_to_check) == 0
           THEN Raise("ResultsMissingError") /\ docking_tool' = docking_tool
           ELSE pc' = "retrieve" /\ err' = err /\ docking_tool' = "glide"
     \/ /\ protocol \notin {"dock", "score"}             \* neither branch is taken
        /\ pc' = "retrieve" /\ err' = err /\ docking_tool' = "glide"
  /\ UNCHANGED <<late, written, call, self_protocol, filesystem, scanner, tables>>

\* ------------------------------------------------- sharded-file scanner
\* The lines a result file may hold. kind: the '>  <SCORE>' marker line, the
\* '>  <s_lp_Variant>' marker line, the '$$$$' line, a score data line, an
\* identifier data line '<ligand>-<conformer>', any other line.
NoField == [v |-> 0, lig |-> "", conf |-> 0]
Line(k) == [kind |-> k] @@ NoField
Lines ==
  {Line("score_marker"), Line("variant_marker"), Line("end"), Line("other")}
    \cup {[kind |-> "value", v |-> x, lig |-> "", conf |-> 0] : x \in Scores}
    \cup {[kind |-> "ident", v |-> 0, lig |-> l, conf |-> c] : l \in Ligands, c \in Conformers}

\* the data line of an annotation follows its marker line (see the header)
WellFormed(line) ==
  /\ score_bool => line.kind = "value"
  /\ conformer_bool => line.kind = "ident"
  /\ line.kind = "value" => score_bool
  /\ line.kind = "ident" => conformer_bool

\* lines 470 and 516: the files the generator will open, in os.listdir order
GeneratorFiles ==
  IF self_protocol = "dock"
  THEN {x \in dock_dir : StartsWithSplit(x)}
  ELSE InputFolders

\* lines 473-475 and 522-524: a file is opened
OpenFile(files) ==
  /\ filename' = Head(files)
  /\ todo' = Tail(files)
  /\ counter' = 1
  /\ score_bool' = FALSE
  /\ conformer_bool' = FALSE
  /\ score_fresh' = FALSE

\* writer.writerow([...]), lines 501 and 544
DockHeader == <<"file_name", "file_entry", "ligand", "conformer", "rdock_score">>
ScoreHeader == <<"file_name", "file_entry", "ligand", "rdock_score">>

\* the generator returns: its local variables are gone
ReturnFromGenerator ==
  /\ todo' = <<>>
  /\ filename' = ""
  /\ counter' = 1
  /\ score_bool' = FALSE
  /\ conformer_bool' = FALSE
  /\ score' = <<>>
  /\ score_fresh' = FALSE

\* lines 497-503 and 540-546: the whole-dataset csv is written
WriteWholeDataset ==
  /\ csv_whole' = [header |-> IF self_protocol = "dock" THEN DockHeader ELSE ScoreHeader,
                   rows |-> data]
  /\ Write(<<IF self_protocol = "dock" THEN "3_docking_job/rDock_data.csv"
                                        ELSE "3_docking_job/rDock_rescore_data.csv">>)
  /\ pc' = "trim"
  /\ ReturnFromGenerator

\* _rdockDataFrameGenerator, lines 462-471 and 508-518: data = [] and the
\* first file is opened (no file: the csv is written with its header alone)
rdockDataFrameGenerator ==
  /\ pc = "generate"
  /\ \E files \in Orders(GeneratorFiles) :
       IF files = <<>>
       THEN WriteWholeDataset
       ELSE OpenFile(files) /\ pc' = "scan" /\ UNCHANGED <<csv_whole, score, written>>
  /\ UNCHANGED <<late, call, err, self_protocol, docking_tool, filesystem,
                 data, calculated_data, csv_best>>

\* the list appended at line 484 (dock) and line 531 (score)
DockRow(line, sc) == <<filename, counter, line.lig, line.conf, sc>>
ScoreRow(sc) == <<filename, counter, filename, sc>>

\* the flags are set by their markers and never reset   [mutant for C19]
FlagsAfterSticky(line) ==
  [score_bool |-> score_bool \/ line.kind = "score_marker",
   conformer_bool |-> IF self_protocol = "dock"
                      THEN conformer_bool \/ line.kind = "variant_marker"
                      ELSE conformer_bool]

\* lines 488-495 and 535-538: the flags once the line is processed (the
\* score protocol's loop never assigns conformer_bool)
FlagsAfter(line) ==
  [score_bool |-> line.kind = "score_marker",
   conformer_bool |-> IF self_protocol = "dock"
                      THEN line.kind = "variant_marker"
                      ELSE conformer_bool]

\* lines 486-495 and 533-538: the counter and the flags after a line
AfterLine(line) ==
  /\ counter' = IF line.kind = "end" THEN counter + 1 ELSE counter
  /\ score_bool' = FlagsAfter(line).score_bool
  /\ conformer_bool' = FlagsAfter(line).conformer_bool
  /\ score_fresh' = IF line.kind = "end" THEN FALSE ELSE (score_bool \/ score_fresh)

\* one pass of the loop body `for line in file`, lines 479-495 (dock)
ScanLineDock(line) ==
  LET new_score == IF score_bool THEN <<line.v>> ELSE score IN
  /\ score' = new_score
  /\ IF conformer_bool
     THEN IF new_score = <<>>
          THEN /\ Raise("UnboundLocalError")              \* score was never assigned
               /\ UNCHANGED <<data, counter, score_bool, conformer_bool, score_fresh>>
          ELSE /\ data' = Append(data, DockRow(line, new_score[1]))
               /\ AfterLine(line)
               /\ UNCHANGED <<pc, err>>
     ELSE /\ AfterLine(line)
          /\ UNCHANGED <<data, pc, err>>

\* one pass of the loop body, lines 528-538 (score)
ScanLineScore(line) ==
  /\ score' = IF score_bool THEN <<line.v>> ELSE score
  /\ data' = IF score_bool THEN Append(data, ScoreRow(line.v)) ELSE data
  /\ AfterLine(line)
  /\ UNCHANGED <<pc, err>>

ScanLine ==
  /\ pc = "scan"
  /\ \E line \in Lines :
       /\ WellFormed(line)
       /\ self_protocol = "score" => line.kind # "ident"
       /\ line.kind = "end" => counter < MaxEntry
       /\ (IF self_protocol = "dock" THEN conformer_bool ELSE score_bool)
            => Len(data) < MaxRows
       /\ IF self_protocol = "dock" THEN ScanLineDock(line) ELSE ScanLineScore(line)
  /\ UNCHANGED <<late, written, call, self_protocol, docking_tool, filesystem, todo, filename,
                 csv_whole, calculated_data, csv_best>>

\* the file is exhausted: the next one is opened or, after the last, the
\* whole-dataset csv is written
EndOfFile ==
  /\ pc = "scan"
  /\ IF todo = <<>>
     THEN WriteWholeDataset
     ELSE OpenFile(todo) /\ UNCHANGED <<pc, csv_whole, score, written>>
  /\ UNCHANGED <<late, call, err, self_protocol, docking_tool, filesystem,
                 data, calculated_data, csv_best>>

\* ------------------------------------------------------ data frames
\* pd.read_csv of a csv written by csv.writer: one record per row, keyed by
\* the names of the header line
ReadCsv(csv) ==
  [i \in 1..Len(csv.rows) |->
     [c \in Range(csv.header) |->
        csv.rows[i][CHOOSE k \in 1..Len(csv.header) : csv.header[k] = c]]]

\* columns that hold names; the others hold numbers
NameColumns == {"ligand", "title", "file_name"}
ColVal(r, c) == IF c \in NameColumns THEN LigandRank(r[c]) ELSE r[c]

\* row a does not come after row b when sorting by the columns `by`
RECURSIVE RowLeq(_, _, _)
RowLeq(a, b, by) ==
  IF by = <<>> THEN TRUE
  ELSE LET x == ColVal(a, Head(by))
           y == ColVal(b, Head(by))
       IN IF x < y THEN TRUE
          ELSE IF x > y THEN FALSE
          ELSE RowLeq(a, b, Tail(by))

\* the orders in which the rows of df with index in `left` may come out of a
\* sort by the columns `by`: a row that no other row precedes comes first
RECURSIVE SortRows(_, _, _)
SortRows(df, by, left) ==
  IF left = {} THEN {<<>>}
  ELSE UNION {{<<df[m]>> \o rest : rest \in SortRows(df, by, left \ {m})} :
                m \in {i \in left : \A k \in left : RowLeq(df[i], df[k], by)}}

\* df.sort_values(by): pandas sorts with kind='quicksort', which is not
\* stable, so rows with equal keys may come out in any order
SortValues(df, by) == SortRows(df, by, 1..Len(df))

RECURSIVE Pick(_, _, _)
Pick(df, keep, i) ==
  IF i > Len(df) THEN <<>>
  ELSE (IF i \in keep THEN <<df[i]>> ELSE <<>>) \o Pick(df, keep, i + 1)

SameKey(a, b, subset) == \A c \in subset : a[c] = b[c]

\* df.drop_duplicates(subset, keep='last')
DropDuplicatesKeepLast(df, subset) ==
  Pick(df, {i \in 1..Len(df) :
              \A j \in (i + 1)..Len(df) : ~SameKey(df[j], df[i], subset)}, 1)

\* df.drop_duplicates(subset): keep='first'
DropDuplicates(df, subset) ==
  Pick(df, {i \in 1..Len(df) :
              \A j \in 1..(i - 1) : ~SameKey(df[j], df[i], subset)}, 1)

\* the reduction steps without the final sort by ligand
ReductionStepsUnsorted(df, score_col, ligand_col) ==
  {DropDuplicates(sorted_df, {ligand_col}) : sorted_df \in SortValues(df, <<score_col>>)}

\* the three reduction steps, lines 563-565 and 347-349: every table they
\* may return
ReductionSteps(df, score_col, ligand_col) ==
  UNION {SortValues(DropDuplicates(sorted_df, {ligand_col}), <<ligand_col>>) :
           sorted_df \in SortValues(df, <<score_col>>)}

\* ---------------------------------------------------------- rDock trimmer
\* the remainder of the entry alone   [mutant for C20]
DockingConformationRemainder(file_entry) == file_entry % PosesPerLigand

\* lines 568-569
DockingConformation(file_entry) ==
  file_entry - ((file_entry - 1) \div PosesPerLigand) * PosesPerLigand

AddDockingConformation(df) ==
  [i \in 1..Len(df) |->
     df[i] @@ [docking_conformation |-> DockingConformation(df[i].file_entry)]]

\* _rdockDataFrameTrimmer, lines 559-585
rdockDataFrameTrimmer ==
  /\ pc = "trim"
  /\ LET df == ReadCsv(csv_whole) IN
     IF self_protocol = "dock"
     THEN \E unique_sorted \in ReductionSteps(df, "rdock_score", "ligand") :
            LET final_df == AddDockingConformation(unique_sorted) IN
            /\ csv_best' = final_df
            /\ Write(<<"3_docking_job/rDock_best_poses.csv">>)
            /\ calculated_data' = final_df
     ELSE /\ calculated_data' = df
          /\ UNCHANGED <<csv_best, written>>
  /\ pc' = "mw"
  /\ UNCHANGED <<late, call, err, self_protocol, docking_tool, filesystem, scanner, data,
                 csv_whole>>

\* --------------------------------------------------------- Glide retriever
\* the rows a Glide result table may hold (the columns kept at line 321)
TableRows == [title : Ligands, i_i_glide_lignum : LigNums, r_i_docking_score : Scores]
Tables == UNION {[1..n -> TableRows] : n \in 0..MaxTable}

\* the loop of lines 326-334 from row i on, prev_title and prev_value being
\* the loop's variables: the values stored in modified_i_i_glide_lignum
RECURSIVE LigNumLoop(_, _, _, _)
LigNumLoop(df, i, prev_title, prev_value) ==
  IF i > Len(df) THEN <<>>
  ELSE LET new == df[i].title # prev_title
           title == IF new THEN df[i].title ELSE prev_title
           value == IF new THEN df[i].i_i_glide_lignum ELSE prev_value
       IN <<df[i].i_i_glide_lignum - value>> \o LigNumLoop(df, i + 1, title, value)

\* line 336: df.insert(2, 'conformer', modified_i_i_glide_lignum + 1)
InsertConformer(df) ==
  LET modified_i_i_glide_lignum == LigNumLoop(df, 1, "None", 0) IN
  [i \in 1..Len(df) |-> df[i] @@ [conformer |-> modified_i_i_glide_lignum[i] + 1]]

\* lines 341-349: every table the sorts and drops may return
GlideReduction(df) ==
  UNION {UNION {ReductionSteps(sorted_df, "r_i_docking_score", "title") :
                  sorted_df \in SortValues(
                      DropDuplicates(df_csv_sort, {"title", "i_i_glide_lignum"}),
                      <<"title", "i_i_glide_lignum">>)} :
           df_csv_sort \in SortValues(df, <<"r_i_docking_score">>)}

\* the records one ligand's <ligand>_score.csv may hold
ScoreTables(ligand) ==
  UNION {[1..n -> [title : {ligand}, r_i_docking_score : Scores]] : n \in 1..MaxRecords}

\* pd.concat(dfs), line 371
RECURSIVE Concat(_)
Concat(dfs) == IF dfs = <<>> THEN <<>> ELSE Head(dfs) \o Concat(Tail(dfs))

\* the best poses saved first   [mutant for C18]
GlideBestPosesFirst == <<"3_docking_job/Glide_dataset.csv", "3_docking_job/Glide_whole_dataset.csv">>

\* lines 338 and 351: the whole dataset is saved before it is sorted and
\* reduced, the best poses after
GlideDockFiles == <<"3_docking_job/Glide_whole_dataset.csv", "3_docking_job/Glide_dataset.csv">>

\* _glideDataFrameRetriever, lines 313-373
glideDataFrameRetriever ==
  /\ pc = "retrieve"
  /\ \/ /\ protocol = "dock"
        /\ \E df_og \in Tables :
             LET df == InsertConformer(df_og) IN
             /\ data' = df
             /\ csv_whole' = df
             /\ \E sorted_df \in GlideReduction(df) :
                  /\ csv_best' = sorted_df
                  /\ calculated_data' = sorted_df
             /\ Write(GlideDockFiles)
     \/ /\ protocol = "score"
        /\ \E paths_to_check \in Orders(InputFolders) :
           \E dfs \in [1..Len(paths_to_check) -> UNION {ScoreTables(l) : l \in Ligands}] :
             /\ \A i \in 1..Len(dfs) : dfs[i] \in ScoreTables(paths_to_check[i])
             /\ data' = Concat(dfs)
             /\ csv_whole' = Concat(dfs)
             /\ calculated_data' = Concat(dfs)
             /\ csv_best' = csv_best
             /\ Write(<<"3_docking_job/glide_score/glide_score.csv">>)
     \/ /\ protocol \notin {"dock", "score"}             \* neither branch is taken
        /\ UNCHANGED <<tables, written>>
  /\ pc' = "mw"
  /\ UNCHANGED <<late, call, err, self_protocol, docking_tool, filesystem, scanner>>

\* ------------------------------------------------ molecular weights
\* most lines of the SMILES file, most rows of an experimental-data file
MaxLigands == 2
MaxExperimental == 2

\* a line of 1_input_files/ligands/<file>: the SMILES of a ligand, which
\* Chem.MolFromSmiles parses or does not
SmilesLines == [ligand : Ligands, parses : BOOLEAN]
LigandFiles == UNION {[1..n -> SmilesLines] : n \in 0..MaxLigands}

\* ExactMolWt of the molecule of a ligand, rounded
ExactMolWt(ligand) == IF ligand = "L1" THEN 78 ELSE 92

\* lines 184-186: one row per line of the file, labelled by the line's index
NewDf(lines) == [i \in 1..Len(lines) |->
                   [ligand |-> i - 1, molecular_weight |-> ExactMolWt(lines[i].ligand)]]

\* _molecularWeightCalculator, lines 170-199.  The file is read with
\* pd.read_csv (an empty file raises EmptyDataError); MolFromSmiles returns None
\* for a SMILES it cannot parse and ExactMolWt(None) raises, which ends the
\* apply of line 184 and the call.
molecularWeightCalculator ==
  /\ pc = "mw"
  /\ \E lines \in LigandFiles :
       /\ ligands_file \in {<<>>, <<lines>>}
       /\ ligands_file' = <<lines>>
       /\ IF lines = <<>>
          THEN Raise("EmptyDataError") /\ UNCHANGED <<molecular_weight, written>>
          ELSE IF \E i \in 1..Len(lines) : ~lines[i].parses
          THEN Raise("ArgumentError") /\ UNCHANGED <<molecular_weight, written>>
          ELSE /\ molecular_weight' = NewDf(lines)
               /\ Write(<<"1_input_files/molecular_weight/molecular_weight.csv",
                          "3_docking_job/images/mw_distribution.png">>)
               /\ pc' = "corr" /\ err' = err
  /\ UNCHANGED <<job, prior, calls, experimental_data, cwd_files, exp_dir, exp_tables,
                 call, self_protocol, docking_tool, filesystem, scanner, tables>>

\* ------------------------------------------------------------ correlation
ExpValues == {5, 6}
\* a row of the experimental-data csv: the ligand (index column) and its energy
ExpRows == [ligand : Ligands, value : ExpValues]
ExpTables == UNION {[1..n -> ExpRows] : n \in 0..MaxExperimental}

Column(df, c) == [i \in 1..Len(df) |-> df[i][c]]
IsConstant(v) == \A i, j \in 1..Len(v) : v[i] = v[j]

\* scipy.stats.linregress(x, y): empty or unequally long inputs raise
\* ValueError; identical x values raise ValueError in the releases that check
\* for them and give nan in the others.  The z-scores of a constant vector are
\* nan, which are not identical values.
LinregressOutcomes(x, y, zscored) ==
  IF Len(x) = 0 \/ Len(y) = 0 \/ Len(x) # Len(y) THEN {"ValueError"}
  ELSE IF ~zscored /\ Len(x) > 1 /\ IsConstant(x) THEN {"ValueError", "none"}
  ELSE {"none"}

PlotName(kind) == "3_docking_job/images/"
                  \o (IF self_protocol = "score" THEN "rescoring_" ELSE "")
                  \o docking_tool \o kind

\* _correlationPlotter (lines 105-149) followed by _doubleCorrelationPlotter
\* (lines 222-267): regressions and plots in the order of the code; the
\* result is the exception met, if any, and the plots saved before it
Plots(x, y, mw) ==
  LET z == LinregressOutcomes(x, y, TRUE)
      raw == LinregressOutcomes(x, y, FALSE)
      mwx == LinregressOutcomes(mw, x, TRUE)
      mwy == LinregressOutcomes(mw, y, TRUE)
      zplot == <<PlotName("_zscore_correlation.png")>>
      plots == zplot \o <<PlotName("_correlation.png")>>
      all == plots \o <<PlotName("_mw_zscore_correlation.png")>>
  IN  IF "none" \notin z THEN {[e |-> "ValueError", saved |-> <<>>]}
      ELSE {[e |-> "ValueError", saved |-> zplot] : o \in raw \ {"none"}}
           \cup (IF "none" \notin raw THEN {}
                 ELSE IF "none" \notin mwx \/ "none" \notin mwy
                 THEN {[e |-> "ValueError", saved |-> plots]}
                 ELSE {[e |-> "none", saved |-> all]})

\* lines 602-605: the experimental-data file is moved into
\* 1_input_files/experimental_energies only when that directory is created
MoveExperimental(file_name) ==
  IF exp_dir # <<>> THEN [dir |-> exp_dir, cwd |-> cwd_files, moved |-> TRUE]
  ELSE IF file_name \in cwd_files
  THEN [dir |-> <<{file_name}>>, cwd |-> cwd_files \ {file_name}, moved |-> TRUE]
  ELSE [dir |-> <<{}>>, cwd |-> cwd_files, moved |-> FALSE]

\* _correlation, lines 600-623, as rdockAnalysis calls it (line 674)
correlation ==
  /\ pc = "corr" /\ tool = "rdock"
  /\ \E file_name \in ExpFiles :
       LET mv == MoveExperimental(file_name) IN
       /\ experimental_data' = file_name
       /\ exp_dir' = mv.dir
       /\ cwd_files' = mv.cwd
       /\ IF ~mv.moved \/ file_name \notin mv.dir[1]
          THEN Raise("FileNotFoundError") /\ UNCHANGED <<exp_tables, written>>
          ELSE \E df_experimental \in ExpTables :
                 /\ exp_tables[file_name] \in {<<>>, <<df_experimental>>}
                 /\ exp_tables' = [exp_tables EXCEPT ![file_name] = <<df_experimental>>]
                 /\ \E out \in Plots(Column(df_experimental, "value"),
                                     Column(calculated_data, "rdock_score"),
                                     Column(molecular_weight, "molecular_weight")) :
                      /\ Write(out.saved)
                      /\ IF out.e = "none" THEN pc' = "done" /\ err' = err ELSE Raise(out.e)
  /\ UNCHANGED <<job, prior, calls, ligands_file, molecular_weight,
                 call, self_protocol, docking_tool, filesystem, scanner, tables>>

\* glideAnalysis, line 651: _correlation is called with two of its three
\* arguments, which raises TypeError before its body runs; line 652
\* (_glideTimePlotter) is not reached
glideCorrelationCall ==
  /\ pc = "corr" /\ tool = "glide"
  /\ Raise("TypeError")
  /\ UNCHANGED <<late, written, call, self_protocol, docking_tool, filesystem, scanner,
                 tables>>

\* ------------------------------------------------------------ a later call
\* most analysis calls made in one working directory
MaxCalls == 2

\* A new DockingAnalyzer is constructed in the same working directory and the
\* same entry point is called again: the attributes start from None, the
\* files written so far stay.  The result tables left by the earlier call
\* are written anew before they are read (lines 497-503, 540-546, 559, 580),
\* so their contents are not carried over; the docking job has left the
\* result directory of the protocol now asked for.
NewCall ==
  /\ pc \in {"done", "failed"}
  /\ calls < MaxCalls
  /\ calls' = calls + 1
  /\ prior' = prior \cup {<<path, protocol>> : path \in Range(written)}
  /\ written' = <<>>
  /\ tool' = tool
  /\ protocol' \in Protocols
  /\ pc' = "call" /\ err' = "none"
  /\ self_protocol' = "None" /\ docking_tool' = "None"
  /\ dock_dir' \in IF protocol' = "dock"
                   THEN SUBSET (IF tool = "rdock" THEN RdockDirNames ELSE GlideDirNames)
                   ELSE {{}}
  /\ score_dir' \in IF protocol' = "score"
                    THEN UNION {[F -> BOOLEAN] : F \in SUBSET Ligands}
                    ELSE {<<>>}
  /\ data' = <<>> /\ csv_whole' = <<>> /\ calculated_data' = <<>> /\ csv_best' = <<>>
  /\ molecular_weight' = <<>> /\ experimental_data' = ""
  /\ UNCHANGED <<job, scanner, ligands_file, cwd_files, exp_dir, exp_tables>>

Next ==
  \/ rdockAnalysis
  \/ glideAnalysis
  \/ rdockDockingResultsChecker
  \/ glideDockingResultsChecker
  \/ rdockDataFrameGenerator
  \/ ScanLine
  \/ EndOfFile
  \/ rdockDataFrameTrimmer
  \/ glideDataFrameRetriever

Spec == Init /\ [][Next]_vars

\* The trimmer on the csv of a shard file of many records: the generator has
\* returned after scanning split1_out.sd, in which one record, the
\* file_entry-th, holds both annotations.
MaxFileEntry == 120

InitTrim ==
  /\ tool = "rdock" /\ protocol = "dock"
  /\ pc = "trim" /\ err = "none"
  /\ self_protocol = "dock" /\ docking_tool = "rdock"
  /\ dock_dir = {"split1_out.sd"} /\ score_dir = <<>>
  /\ todo = <<>> /\ filename = "" /\ counter = 1
  /\ score_bool = FALSE /\ conformer_bool = FALSE /\ score = <<>> /\ score_fresh = FALSE
  /\ \E file_entry \in 1..MaxFileEntry, ligand \in Ligands, conformer \in Conformers,
        rdock_score \in Scores :
       data = << <<"split1_out.sd", file_entry, ligand, conformer, rdock_score>> >>
  /\ csv_whole = [header |-> DockHeader, rows |-> data]
  /\ calculated_data = <<>> /\ csv_best = <<>>
  /\ written = <<"3_docking_job/rDock_data.csv">>
  /\ prior = {} /\ calls = 1
  /\ ligands_file = <<>> /\ molecular_weight = <<>> /\ experimental_data = ""
  /\ cwd_files = ExpFiles /\ exp_dir = <<>> /\ exp_tables = [f \in ExpFiles |-> <<>>]
  /\ JobIdle

NextTrim == rdockDataFrameTrimmer

SpecTrim == InitTrim /\ [][NextTrim]_vars

\* One rdockAnalysis call of the dock protocol on a results directory that
\* may also hold an '.sd' file whose name does not start with 'split'.
ShardDirNames == RdockDirNames \cup {"docked_out.sd"}

InitShards ==
  /\ tool = "rdock" /\ protocol = "dock"
  /\ pc = "call" /\ err = "none"
  /\ self_protocol = "None" /\ docking_tool = "None"
  /\ dock_dir \in SUBSET ShardDirNames /\ score_dir = <<>>
  /\ todo = <<>> /\ filename = "" /\ counter = 1
  /\ score_bool = FALSE /\ conformer_bool = FALSE /\ score = <<>> /\ score_fresh = FALSE
  /\ data = <<>> /\ csv_whole = <<>> /\ calculated_data = <<>> /\ csv_best = <<>>
  /\ written = <<>> /\ prior = {} /\ calls = 1
  /\ ligands_file = <<>> /\ molecular_weight = <<>> /\ experimental_data = ""
  /\ cwd_files = ExpFiles /\ exp_dir = <<>> /\ exp_tables = [f \in ExpFiles |-> <<>>]
  /\ JobIdle

NextShards ==
  \/ rdockAnalysis
  \/ rdockDockingResultsChecker
  \/ rdockDataFrameGenerator
  \/ ScanLine
  \/ EndOfFile
  \/ rdockDataFrameTrimmer

SpecShards == InitShards /\ [][NextShards]_vars

\* -------------------------------------------------------------- DockingJob
\* most dot-separated parts of the ligands path
MaxParts == 3
PathParts == {"ligands", "sdf", "sd", "mol2"}
\* paths such as ligands.sdf, ligands.sd, ligands.mol2, ligands.sdf.mol2, sdf
LigandPaths == UNION {[1..n -> PathParts] : n \in 1..MaxParts}

\* ligands.split('.')[-1]
LastPart(path) == path[Len(path)]

\* _ligandsChecker, lines 19-25 of dockingJob.py: the exception is in the
\* else branch of `ext != 'sdf' or ext != 'sd'`
ligandsChecker ==
  /\ job_pc = "check"
  /\ IF (LastPart(ligands) # "sdf") \/ (LastPart(ligands) # "sd")
     THEN job_pc' = "prepare" /\ job_err' = job_err             \* pass
     ELSE job_pc' = "failed" /\ job_err' = "LigandsFileError"
  /\ UNCHANGED <<ligands, job_dirs>>
  /\ UNCHANGED <<written, prior, calls, ligands_file, molecular_weight, experimental_data,
                 cwd_files, exp_dir, exp_tables, call, pc, err, self_protocol, docking_tool,
                 filesystem, scanner, tables>>

\* _folderPreparation, lines 27-33 of dockingJob.py
folderPreparation ==
  /\ job_pc = "prepare"
  /\ job_dirs' = job_dirs \cup {"3_docking_job", "3_docking_job/job"}
  /\ job_pc' = "ready"
  /\ UNCHANGED <<ligands, job_err>>
  /\ UNCHANGED <<written, prior, calls, ligands_file, molecular_weight, experimental_data,
                 cwd_files, exp_dir, exp_tables, call, pc, err, self_protocol, docking_tool,
                 filesystem, scanner, tables>>

\* DockingJob(receptor, ligands) is being constructed (lines 10-14 of
\* dockingJob.py done); no analysis is running
InitJob ==
  /\ ligands \in LigandPaths
  /\ job_pc = "check" /\ job_err = "none"
  /\ job_dirs \in {{}, {"3_docking_job"}, {"3_docking_job", "3_docking_job/job"}}
  /\ tool = "rdock" /\ protocol = "dock"
  /\ pc = "idle" /\ err = "none"
  /\ self_protocol = "None" /\ docking_tool = "None"
  /\ dock_dir = {} /\ score_dir = <<>>
  /\ todo = <<>> /\ filename = "" /\ counter = 1
  /\ score_bool = FALSE /\ conformer_bool = FALSE /\ score = <<>> /\ score_fresh = FALSE
  /\ data = <<>> /\ csv_whole = <<>> /\ calculated_data = <<>> /\ csv_best = <<>>
  /\ written = <<>> /\ prior = {} /\ calls = 1
  /\ ligands_file = <<>> /\ molecular_weight = <<>> /\ experimental_data = ""
  /\ cwd_files = ExpFiles /\ exp_dir = <<>> /\ exp_tables = [f \in ExpFiles |-> <<>>]

NextJob == ligandsChecker \/ folderPreparation

SpecJob == InitJob /\ [][NextJob]_vars

\* The whole analysis call, and a second call after it.  The stages after the
\* reduction read the ligand and the score column of the reduced table only,
\* so this specification draws the docking results from the smaller set
\* SmallResults.
SmallResults ==
  /\ Cardinality(dock_dir) <= 1
  /\ counter = 1
  /\ IF tool = "glide"
     THEN Len(data) <= 1
     ELSE \A i \in 1..Len(data) : self_protocol = "dock" => data[i][4] = 1
NextRuns ==
  \/ Next /\ SmallResults'
  \/ molecularWeightCalculator
  \/ correlation
  \/ glideCorrelationCall
  \/ NewCall /\ SmallResults'

SpecRuns == Init /\ [][NextRuns]_vars

\* ---------------------------------------------------------------- claims
\* the ingested (whole-dataset) table, its ligand column and its score column
Ingested == IF tool = "rdock" THEN ReadCsv(csv_whole) ELSE data
LigandCol == IF tool = "rdock" THEN "ligand" ELSE "title"
ScoreCol == IF tool = "rdock" THEN "rdock_score" ELSE "r_i_docking_score"
LigandsOf(df) == {df[i][LigandCol] : i \in 1..Len(df)}
RowsOf(df, l) == {i \in 1..Len(df) : df[i][LigandCol] = l}
\* ingestion and reduction have run to their end
Reduced == pc = "mw" /\ protocol \in {"dock", "score"}

\* C1: in the dock protocol the reduced table holds exactly one row for every
\* ligand of the ingested records, no row for any other ligand, and that row's
\* score is the minimum score over the ingested records of that ligand.
C1_BestPosePerLigand ==
  (Reduced /\ protocol = "dock") =>
    /\ LigandsOf(calculated_data) = LigandsOf(Ingested)
    /\ \A l \in LigandsOf(Ingested) :
         /\ Cardinality(RowsOf(calculated_data, l)) = 1
         /\ \A i \in RowsOf(calculated_data, l) :
              calculated_data[i][ScoreCol] =
                Min({Ingested[k][ScoreCol] : k \in RowsOf(Ingested, l)})

\* C1 witness: a sharded dock run ingested two records of one ligand with
\* different scores and reduced them to one row.
C1_Witness ==
  /\ Reduced /\ protocol = "dock" /\ tool = "rdock"
  /\ \E j, k \in 1..Len(Ingested) :
       /\ Ingested[j].ligand = Ingested[k].ligand
       /\ Ingested[j].rdock_score < Ingested[k].rdock_score
  /\ Len(calculated_data) = 1

\* C2: for either protocol and either tool the table handed to the correlation
\* stage has exactly as many rows as there are distinct ligand ids among the
\* ingested records.
C2_OneRowPerIngestedLigand ==
  Reduced => Len(calculated_data) = Cardinality(LigandsOf(Ingested))

OneRowPerLigand(df) == \A l \in LigandsOf(df) : Cardinality(RowsOf(df, l)) = 1
OrderedByLigand(df) ==
  \A i, j \in 1..Len(df) :
    i < j => LigandRank(df[i][LigandCol]) <= LigandRank(df[j][LigandCol])
SameRows(a, b) == Len(a) = Len(b) /\ Range(a) = Range(b)

\* C3 as stated: the reduction steps applied to any table with one row per
\* ligand return the same rows in the same order.
C3_SameOrder ==
  (Reduced /\ protocol = "dock" /\ OneRowPerLigand(Ingested)) =>
    \A out \in ReductionSteps(Ingested, ScoreCol, LigandCol) : out = Ingested

\* C3 amended: the reduction steps applied to a table with one row per ligand
\* return the same set of rows ordered by ligand; a reduced table, which is
\* ordered by ligand, is returned unchanged.
C3_ReductionIdempotent ==
  (Reduced /\ protocol = "dock") =>
    /\ OrderedByLigand(calculated_data)
    /\ \A out \in ReductionSteps(calculated_data, ScoreCol, LigandCol) :
         out = calculated_data
    /\ OneRowPerLigand(Ingested) =>
         \A out \in ReductionSteps(Ingested, ScoreCol, LigandCol) :
           SameRows(out, Ingested) /\ OrderedByLigand(out)

\* C3 witness: a reduced table of two ligands whose order by score is the
\* reverse of its order by ligand, so that the first sort moves rows and the
\* last sort moves them back.
C3_Witness ==
  /\ Reduced /\ protocol = "dock"
  /\ OneRowPerLigand(Ingested)
  /\ Len(calculated_data) = 2
  /\ calculated_data[1][ScoreCol] > calculated_data[2][ScoreCol]

\* the rows of the whole-dataset table for every order in which the shard
\* files may be read
ReadOrders(rows) ==
  {Concat([i \in 1..Len(o) |-> SelectSeq(rows, LAMBDA r : r[1] = o[i])]) :
     o \in Orders({rows[i][1] : i \in 1..Len(rows)})}

\* C4: the reduced best-pose table is the same for every order in which the
\* shard files are read: the same record is kept for each ligand.
C4_ReadOrderIndependent ==
  (Reduced /\ protocol = "dock" /\ tool = "rdock") =>
    \A rows \in ReadOrders(csv_whole.rows) :
      \A out \in ReductionSteps(ReadCsv([header |-> DockHeader, rows |-> rows]),
                                "rdock_score", "ligand") :
        AddDockingConformation(out) = calculated_data

\* C5: in sharded dock-mode ingestion a pose record is appended only when the
\* score was read within the record being scanned, and a record that lacks an
\* annotation raises no error.
C5_CompleteRecordsOnly ==
  [][(pc = "scan" /\ self_protocol = "dock") =>
        /\ Len(data') > Len(data) => score_fresh
        /\ err' = "none"]_vars

\* index of the first row of the contiguous run of equal title that holds row i
RunStart(df, i) ==
  CHOOSE s \in 1..i :
    /\ \A k \in s..i : df[k].title = df[i].title
    /\ s = 1 \/ df[s - 1].title # df[i].title

\* C6: in tabular dock-mode ingestion the conformer index of a row is its raw
\* index minus the raw index of the first row of its run plus one, the first
\* row of a run gets 1, and every conformer index is at least 1.
C6_ConformerIndex ==
  (Reduced /\ protocol = "dock" /\ tool = "glide") =>
    \A i \in 1..Len(data) :
      /\ data[i].conformer =
           data[i].i_i_glide_lignum - data[RunStart(data, i)].i_i_glide_lignum + 1
      /\ RunStart(data, i) = i => data[i].conformer = 1
      /\ data[i].conformer >= 1

\* C7: no two records of the ingested table share the same (ligand, conformer)
\* pair.
C7_UniqueLigandConformer ==
  (Reduced /\ protocol = "dock") =>
    \A i, j \in 1..Len(Ingested) :
      i # j => <<Ingested[i][LigandCol], Ingested[i].conformer>>
                 # <<Ingested[j][LigandCol], Ingested[j].conformer>>

\* the results checker has returned or raised
Checked == pc \notin {"call", "check"}
\* the dock protocol's result files that are present
ResultFiles ==
  {x \in dock_dir : IF tool = "rdock" THEN EndsWithSd(x) ELSE EndsWithCsv(x)}

\* C8: in the dock protocol, when no result file is present the results
\* checker fails with ResultsMissingError.
C8_MissingResultsReported ==
  (Checked /\ protocol = "dock" /\ ResultFiles = {}) => err = "ResultsMissingError"

\* C9: in the score protocol the results checker fails with the output-count
\* error whenever the number of subfolders holding their result file differs
\* from the number of subfolders, and passes only when every subfolder holds it.
C9_CountMismatchReported ==
  (Checked /\ protocol = "score") =>
    /\ Cardinality(OutputFolders) # Cardinality(InputFolders) => err = "OutputError"
    /\ err = "none" => OutputFolders = InputFolders

\* C10: in the score protocol, when the score directory holds no ligand
\* subfolder the results checker fails with ResultsMissingError.
C10_NoFoldersReported ==
  (Checked /\ protocol = "score" /\ InputFolders = {}) => err = "ResultsMissingError"

\* C11: a call whose protocol is neither 'dock' nor 'score' fails with the
\* protocol error in the results checker, before any result is ingested or
\* any file is written.
C11_UnknownProtocolRejected ==
  (protocol \notin {"dock", "score"} /\ Checked)
    => (err = "ProtocolError" /\ data = <<>> /\ written = <<>>)

\* the molecular-weight stage has run in this call: it returned, or it raised
MwRaised == pc = "failed" /\ err \in {"EmptyDataError", "ArgumentError"}
\* (the exceptions named are those of the stages that follow it)
MwReturned == pc \in {"corr", "done"}
              \/ (pc = "failed" /\ err \in {"TypeError", "FileNotFoundError", "ValueError"})
SmilesRead == ligands_file[1]

\* C12: a SMILES that does not parse does not abort the molecular-weight
\* stage: the stage returns, with a weight for every line that does parse
\* (the error of the line that does not is reported for its index).
C12_DescriptorErrorPerIndex ==
  ((MwRaised \/ MwReturned) /\ \E i \in 1..Len(SmilesRead) : ~SmilesRead[i].parses)
    => /\ MwReturned
       /\ \A i \in 1..Len(SmilesRead) :
            SmilesRead[i].parses =>
              \E k \in 1..Len(molecular_weight) :
                /\ molecular_weight[k].ligand = i - 1
                /\ molecular_weight[k].molecular_weight = ExactMolWt(SmilesRead[i].ligand)

\* _correlation has read its three vectors in this call (lines 612-618)
VectorsRead == pc \in {"done", "failed"} /\ experimental_data # ""
               /\ err # "FileNotFoundError"
Experimental == exp_tables[experimental_data][1]
X == Column(Experimental, "value")
Y == Column(calculated_data, "rdock_score")
MW == Column(molecular_weight, "molecular_weight")
CorrelationPlots == {PlotName("_zscore_correlation.png"), PlotName("_correlation.png"),
                     PlotName("_mw_zscore_correlation.png")}
NoPlotSaved == Range(written) \cap CorrelationPlots = {}

\* C13: the correlation stage fails with the insufficient-data error when a
\* vector has fewer than two elements, and with the degenerate-input error
\* when a vector is constant, before any plot is saved.
C13_DegenerateVectorsRejected ==
  VectorsRead =>
    /\ (\E v \in {X, Y, MW} : Len(v) < 2)
         => (err = "InsufficientDataError" /\ NoPlotSaved)
    /\ ((\A v \in {X, Y, MW} : Len(v) >= 2) /\ (\E v \in {X, Y, MW} : IsConstant(v)))
         => (err = "DegenerateInputError" /\ NoPlotSaved)

\* C14: for one tool, no file written by a 'dock' call is written by a
\* 'score' call, nor the other way round.
C14_ProtocolPathsDisjoint ==
  \A q \in prior :
    {q[2], protocol} = {"dock", "score"} => q[1] \notin Range(written)

\* valid, complete inputs of a glideAnalysis call: a known protocol, the
\* result files of that protocol in place, a SMILES file whose lines all parse
GlideInputsValid ==
  /\ tool = "glide" /\ protocol \in {"dock", "score"}
  /\ protocol = "dock" => \E x \in dock_dir : EndsWithCsv(x)
  /\ protocol = "score" => (InputFolders # {} /\ InputFolders = OutputFolders)
  /\ ligands_file # <<>> /\ SmilesRead # <<>>
  /\ \A i \in 1..Len(SmilesRead) : SmilesRead[i].parses

\* C15: a glideAnalysis call over valid inputs that has ended has ended
\* without an exception, after the correlation stage and with the
\* runtime-cost histogram written last.
C15_GlideRunCompletes ==
  (GlideInputsValid /\ pc \in {"done", "failed"})
    => /\ pc = "done" /\ err = "none"
       /\ written # <<>>
       /\ written[Len(written)] = "3_docking_job/images/glide_time_distribution.png"

\* the experimental-data files the caller has provided, wherever they lie now
Provided == cwd_files \cup (IF exp_dir = <<>> THEN {} ELSE exp_dir[1])

\* C16: whether a call finds its experimental-data file does not depend on an
\* earlier call: the file is reported missing only when the caller has not
\* provided it, as in a first call.
C16_StatelessBetweenCalls ==
  (pc = "failed" /\ err = "FileNotFoundError") => experimental_data \notin Provided

\* the ligand each position of the three vectors belongs to
XLigands == Column(Experimental, "ligand")
YLigands == Column(calculated_data, "ligand")
MWLigands == Column(SmilesRead, "ligand")

\* C17: when the correlation stage has run a regression (a plot is saved or
\* the call is done), the experimental, predicted and molecular-weight vectors
\* are equally long and hold the same ligand at every position.
C17_VectorsAligned ==
  (VectorsRead /\ (pc = "done" \/ ~NoPlotSaved))
    => (XLigands = YLigands /\ YLigands = MWLigands)

WholePath == IF tool = "rdock" THEN "3_docking_job/rDock_data.csv"
                               ELSE "3_docking_job/Glide_whole_dataset.csv"
BestPath == IF tool = "rdock" THEN "3_docking_job/rDock_best_poses.csv"
                              ELSE "3_docking_job/Glide_dataset.csv"
Position(path) == CHOOSE i \in 1..Len(written) : written[i] = path
WholeRows == IF tool = "rdock" THEN csv_whole.rows ELSE csv_whole

\* C18: in a 'dock' call the whole-dataset csv is written before the
\* reduction hands over its table and before the best-pose csv is written,
\* and it holds every ingested record.
C18_WholeDatasetFirst ==
  protocol = "dock" =>
    /\ (pc = "mw" \/ calculated_data # <<>> \/ BestPath \in Range(written))
         => WholePath \in Range(written)
    /\ BestPath \in Range(written) => Position(WholePath) < Position(BestPath)
    /\ WholePath \in Range(written) => WholeRows = data

\* a dock call has ingested two records of one ligand and kept one of them
C18_Witness ==
  /\ protocol = "dock" /\ pc = "mw"
  /\ Len(data) = 2 /\ Len(calculated_data) = 1
  /\ written = <<WholePath, BestPath>>

\* the lines the scanner may meet next in the file it is scanning
NextLines == {line \in Lines : WellFormed(line)
                               /\ (self_protocol = "score" => line.kind # "ident")}
\* a step in which the scanner processes a line without raising, and one in
\* which it reads a value from the line
LineProcessed == pc = "scan" /\ pc' = "scan" /\ todo' = todo
ValueRead == score' # score \/ Len(data') > Len(data)

\* C19 as stated: in the scanner of either protocol, after each line the
\* score flag is true iff the line holds the score marker and the identifier
\* flag is true iff the line holds the identifier marker.
C19_BothFlagsFollowMarkers ==
  pc = "scan" =>
    \A line \in NextLines :
      /\ FlagsAfter(line).score_bool = (line.kind = "score_marker")
      /\ FlagsAfter(line).conformer_bool = (line.kind = "variant_marker")

\* C19, amended: the score flag follows the score marker in both scanners;
\* the identifier flag follows the identifier marker in the dock scanner and
\* stays false in the score scanner; when a line is processed without an
\* exception, a value is read from it only if the flag of the line before is
\* set, and no flag stays set across two lines.
C19_FlagsFollowMarkers ==
  /\ [](pc = "scan" =>
         \A line \in NextLines :
           /\ FlagsAfter(line).score_bool = (line.kind = "score_marker")
           /\ FlagsAfter(line).conformer_bool
                = (self_protocol = "dock" /\ line.kind = "variant_marker"))
  /\ [][LineProcessed =>
          /\ ValueRead => (score_bool \/ conformer_bool)
          /\ ~(score_bool /\ score_bool')
          /\ ~(conformer_bool /\ conformer_bool')]_vars

\* the dock scanner has read a score after its marker and has just
\* processed an identifier marker
C19_Witness ==
  pc = "scan" /\ self_protocol = "dock" /\ conformer_bool /\ ~score_bool /\ score_fresh

\* rbdock -n 50: the poses the job preparer asks for per ligand
RbdockPoses == 50

\* C20: in the best-pose table of the rDock dock reduction, a row of file
\* entry e >= 1 has docking_conformation = ((e - 1) mod 50) + 1, which lies in
\* 1..50, 50 being the number of poses of rbdock -n 50.
C20_DockingConformation ==
  (tool = "rdock" /\ self_protocol = "dock" /\ pc = "mw") =>
    \A i \in 1..Len(calculated_data) :
      LET e == calculated_data[i].file_entry IN
      e >= 1 => /\ calculated_data[i].docking_conformation = ((e - 1) % RbdockPoses) + 1
                /\ calculated_data[i].docking_conformation \in 1..RbdockPoses

\* the kept row is the last pose of the second ligand of its file
C20_Witness ==
  /\ tool = "rdock" /\ self_protocol = "dock" /\ pc = "mw"
  /\ \E i \in 1..Len(calculated_data) :
       /\ calculated_data[i].file_entry = 2 * RbdockPoses
       /\ calculated_data[i].docking_conformation = RbdockPoses

\* C21: the constructor of DockingJob fails with LigandsFileError exactly
\* for the ligands paths whose extension is neither 'sdf' nor 'sd'.
C21_LigandsExtensionChecked ==
  job_pc \in {"prepare", "ready", "failed"} =>
    (job_err = "LigandsFileError") = (LastPart(ligands) \notin {"sdf", "sd"})

\* C22: a row the dock scanner appends carries a score read from the score
\* annotation of the record being scanned, in the file being scanned, never
\* one kept from an earlier record or an earlier file.
C22_ScoreOfSameRecord ==
  [][(pc = "scan" /\ self_protocol = "dock" /\ Len(data') > Len(data)) => score_fresh]_vars

\* C23: in the dock protocol of rDock, once the results checker has passed,
\* every file it accepts ('.sd') is one the generator reads ('split...'), and
\* the generator has at least one file to read.
C23_CheckedFilesAreRead ==
  (tool = "rdock" /\ protocol = "dock" /\ pc \in {"generate", "scan", "trim", "mw"})
    => /\ \A x \in dock_dir : EndsWithSd(x) => StartsWithSplit(x)
       /\ {x \in dock_dir : StartsWithSplit(x)} # {}

====
